---- MODULE Spec2Model ----
(***************************************************************************)
(* Model of swarm/client_factory.py: the four configuration resolvers      *)
(* (OpenAIClient, AzureOpenAIClient, OllamaClient, HuggingFaceClient), the  *)
(* class-level registry ClientFactory._clients and its two operations       *)
(* create_client and register_client.                                       *)
(*                                                                          *)
(* Python values: a str is a TLA+ string, None is the value None below.     *)
(* Variant names are sequences of one-character strings so that             *)
(* str.lower() and ', '.join() are computed character by character.         *)
(***************************************************************************)
EXTENDS Naturals, Sequences, FiniteSets, TLC

VARIABLES clients, env, nregs, last

vars == <<clients, env, nregs, last>>

(* ------------------------------ bounds --------------------------------- *)

\* number of register_client calls in one behaviour
MaxRegs == 2

\* number of environment variables that are set in a constructor-level run
MaxEnvSet == 2

(* --------------------------- Python values ----------------------------- *)

\* Python's None (no string used as a credential, URL or name equals it)
None == "None"

\* bool(v) for v a str or None: None and the empty string are falsy
Truthy(v) == v # None /\ v # ""

OrMutEnvFirst(a, b) == IF Truthy(b) THEN b ELSE a

\* the expression `a or b`
Or(a, b) == IF Truthy(a) THEN a ELSE b

(* ------------------------------ strings -------------------------------- *)

Str_openai == <<"o", "p", "e", "n", "a", "i">>
Str_azure == <<"a", "z", "u", "r", "e">>
Str_ollama == <<"o", "l", "l", "a", "m", "a">>
Str_huggingface == <<"h", "u", "g", "g", "i", "n", "g", "f", "a", "c", "e">>

UpperToLower ==
    [c \in {"A", "C", "E", "F", "G", "H", "I", "L", "M", "N", "O", "P", "R", "U", "X", "Y", "Z"} |->
        CASE c = "A" -> "a" [] c = "C" -> "c" [] c = "E" -> "e" [] c = "F" -> "f"
          [] c = "G" -> "g" [] c = "H" -> "h" [] c = "I" -> "i" [] c = "L" -> "l"
          [] c = "M" -> "m" [] c = "N" -> "n" [] c = "O" -> "o" [] c = "P" -> "p"
          [] c = "R" -> "r" [] c = "U" -> "u" [] c = "X" -> "x" [] c = "Y" -> "y"
          [] c = "Z" -> "z"]

\* str.lower(): every cased character is replaced by its lowercase form
Lower(s) == [i \in DOMAIN s |-> IF s[i] \in DOMAIN UpperToLower THEN UpperToLower[s[i]] ELSE s[i]]

RECURSIVE Join(_)
\* ', '.join(keys), as a sequence of characters
Join(keys) ==
    IF keys = <<>> THEN <<>>
    ELSE IF Len(keys) = 1 THEN keys[1]
    ELSE keys[1] \o <<",", " ">> \o Join(Tail(keys))

(* --------------------------- the environment --------------------------- *)

EnvVars ==
    {"OPENAI_API_KEY", "OPENAI_ORG_ID", "OPENAI_PROJECT_ID",
     "AZURE_OPENAI_API_KEY", "AZURE_OPENAI_ENDPOINT", "OPENAI_API_VERSION",
     "AZURE_OPENAI_DEPLOYMENT_NAME", "OLLAMA_ENDPOINT_URL",
     "HF_API_TOKEN", "HF_ENDPOINT_URL"}

\* the non-empty value a variable holds when it is set to one
EnvValue ==
    [v \in EnvVars |->
        CASE v = "OPENAI_API_KEY" -> "env-openai-key"
          [] v = "OPENAI_ORG_ID" -> "env-org"
          [] v = "OPENAI_PROJECT_ID" -> "env-project"
          [] v = "AZURE_OPENAI_API_KEY" -> "env-azure-key"
          [] v = "AZURE_OPENAI_ENDPOINT" -> "env-azure-endpoint"
          [] v = "OPENAI_API_VERSION" -> "env-api-version"
          [] v = "AZURE_OPENAI_DEPLOYMENT_NAME" -> "env-deployment"
          [] v = "OLLAMA_ENDPOINT_URL" -> "env-ollama-url"
          [] v = "HF_API_TOKEN" -> "env-hf-token"
          [] v = "HF_ENDPOINT_URL" -> "env-hf-url"]

\* os.getenv(name): None when unset, else the string (possibly empty)
Getenv(e, name) == e[name]

EnvUnset == [v \in EnvVars |-> None]
EnvEmpty == [v \in EnvVars |-> ""]
EnvFull == [v \in EnvVars |-> EnvValue[v]]

\* the environments the factory-level specification starts from
FactoryEnvs == {EnvUnset, EnvEmpty, EnvFull}

\* the environments with at most MaxEnvSet variables set, each to "" or to its value
CtorEnvs ==
    UNION {{[v \in EnvVars |-> IF v \in S THEN (IF v \in E THEN "" ELSE EnvValue[v]) ELSE None] :
              E \in SUBSET S} :
           S \in {T \in SUBSET EnvVars : Cardinality(T) <= MaxEnvSet}}

(* ------------------------- results of a call --------------------------- *)

NoError == [type |-> None, msg |-> None, client_name |-> <<>>, options |-> <<>>]

\* raise ValueError(msg) for a fixed message
ValueError(msg) == [type |-> "ValueError", msg |-> msg, client_name |-> <<>>, options |-> <<>>]

NoObject == [cls |-> None]

\* the outcome of a constructor: the instance, or the exception raised
Constructed(self) == [ok |-> TRUE, self |-> self, error |-> NoError]
Raised(err) == [ok |-> FALSE, self |-> NoObject, error |-> err]

(* ------------------------------ OpenAIClient --------------------------- *)

DefaultOpenAIBaseUrl == "https://api.openai.com/v1"

OpenAIClient_init_MutNoCheck(e, api_key, base_url, organization, project) ==
    Constructed([cls |-> "OpenAIClient",
                 api_key |-> Or(api_key, Getenv(e, "OPENAI_API_KEY")),
                 base_url |-> Or(base_url, DefaultOpenAIBaseUrl),
                 organization |-> Or(organization, Getenv(e, "OPENAI_ORG_ID")),
                 project |-> Or(project, Getenv(e, "OPENAI_PROJECT_ID"))])

OpenAIClient_init(e, api_key, base_url, organization, project) ==
    LET k == Or(api_key, Getenv(e, "OPENAI_API_KEY")) IN
    IF ~Truthy(k)
    THEN Raised(ValueError("API key must be set in the environment variable 'OPENAI_API_KEY'."))
    ELSE Constructed([cls |-> "OpenAIClient",
                      api_key |-> k,
                      base_url |-> Or(base_url, DefaultOpenAIBaseUrl),
                      organization |-> Or(organization, Getenv(e, "OPENAI_ORG_ID")),
                      project |-> Or(project, Getenv(e, "OPENAI_PROJECT_ID"))])

\* OpenAIClient.create: the arguments handed to the library's OpenAI(...)
OpenAIClient_create(self) ==
    [lib |-> "OpenAI", api_key |-> self.api_key, base_url |-> self.base_url,
     organization |-> self.organization, project |-> self.project]

(* --------------------------- AzureOpenAIClient ------------------------- *)

AzureOpenAIClient_init(e, api_key, base_url, api_version, azure_deployment) ==
    Constructed([cls |-> "AzureOpenAIClient",
                 api_key |-> Or(api_key, Getenv(e, "AZURE_OPENAI_API_KEY")),
                 base_url |-> Or(base_url, Getenv(e, "AZURE_OPENAI_ENDPOINT")),
                 api_version |-> Or(api_version, Getenv(e, "OPENAI_API_VERSION")),
                 azure_deployment |-> Or(azure_deployment, Getenv(e, "AZURE_OPENAI_DEPLOYMENT_NAME"))])

\* AzureOpenAIClient.create: the arguments handed to the library's AzureOpenAI(...)
AzureOpenAIClient_create(self) ==
    [lib |-> "AzureOpenAI", api_key |-> self.api_key, azure_endpoint |-> self.base_url,
     api_version |-> self.api_version, azure_deployment |-> self.azure_deployment]

(* ------------------------------ OllamaClient --------------------------- *)

OllamaPlaceholderKey == "ollama"

OllamaClient_init_MutEnvKey(e, api_key, base_url) ==
    Constructed([cls |-> "OllamaClient",
                 api_key |-> Or(api_key, Getenv(e, "OPENAI_API_KEY")),
                 base_url |-> Or(base_url, Getenv(e, "OLLAMA_ENDPOINT_URL"))])

OllamaClient_init(e, api_key, base_url) ==
    Constructed([cls |-> "OllamaClient",
                 api_key |-> Or(api_key, OllamaPlaceholderKey),
                 base_url |-> Or(base_url, Getenv(e, "OLLAMA_ENDPOINT_URL"))])

\* OllamaClient.create: the arguments handed to the library's OpenAI(...)
OllamaClient_create(self) ==
    [lib |-> "OpenAI", api_key |-> self.api_key, base_url |-> self.base_url]

(* ---------------------------- HuggingFaceClient ------------------------ *)

HuggingFaceClient_init_MutNoUrlCheck(e, api_key, base_url) ==
    LET k == Or(api_key, Getenv(e, "HF_API_TOKEN"))
        u == Or(base_url, Getenv(e, "HF_ENDPOINT_URL")) IN
    IF ~Truthy(k)
    THEN Raised(ValueError("API key must be provided either as a parameter or set in the environment variable 'HF_API_TOKEN'."))
    ELSE Constructed([cls |-> "HuggingFaceClient", api_key |-> k, base_url |-> u])

HuggingFaceClient_init_MutNoKeyCheck(e, api_key, base_url) ==
    LET k == Or(api_key, Getenv(e, "HF_API_TOKEN"))
        u == Or(base_url, Getenv(e, "HF_ENDPOINT_URL")) IN
    IF ~Truthy(u)
    THEN Raised(ValueError("Endpoint URL must be provided either as a parameter or set in the environment variable 'HF_ENDPOINT_URL'."))
    ELSE Constructed([cls |-> "HuggingFaceClient", api_key |-> k, base_url |-> u])

HuggingFaceClient_init(e, api_key, base_url) ==
    LET k == Or(api_key, Getenv(e, "HF_API_TOKEN"))
        u == Or(base_url, Getenv(e, "HF_ENDPOINT_URL")) IN
    IF ~Truthy(k)
    THEN Raised(ValueError("API key must be provided either as a parameter or set in the environment variable 'HF_API_TOKEN'."))
    ELSE IF ~Truthy(u)
    THEN Raised(ValueError("Endpoint URL must be provided either as a parameter or set in the environment variable 'HF_ENDPOINT_URL'."))
    ELSE Constructed([cls |-> "HuggingFaceClient", api_key |-> k, base_url |-> u])

\* HuggingFaceClient.create: the arguments handed to the library's OpenAI(...)
HuggingFaceClient_create(self) ==
    [lib |-> "OpenAI", base_url |-> self.base_url, api_key |-> self.api_key]

(* ------------------- a resolver registered by a caller ----------------- *)

\* a concrete BaseClient subclass of the caller's: it keeps both arguments as
\* given and create() returns a handle holding them
CustomClient_init(e, api_key, base_url) ==
    Constructed([cls |-> "CustomClient", api_key |-> api_key, base_url |-> base_url])

CustomClient_create(self) ==
    [lib |-> "Custom", api_key |-> self.api_key, base_url |-> self.base_url]

BuiltinClasses == {"OpenAIClient", "AzureOpenAIClient", "OllamaClient", "HuggingFaceClient"}

\* the resolver types passed to register_client: a built-in type that never
\* raises, a built-in type that validates, and a type of the caller's
Classes == {"OllamaClient", "HuggingFaceClient", "CustomClient"}

\* client_class(api_key, base_url): the two positional arguments of create_client
Instantiate(client_class, e, api_key, base_url) ==
    CASE client_class = "OpenAIClient" -> OpenAIClient_init(e, api_key, base_url, None, None)
      [] client_class = "AzureOpenAIClient" -> AzureOpenAIClient_init(e, api_key, base_url, None, None)
      [] client_class = "OllamaClient" -> OllamaClient_init(e, api_key, base_url)
      [] client_class = "HuggingFaceClient" -> HuggingFaceClient_init(e, api_key, base_url)
      [] client_class = "CustomClient" -> CustomClient_init(e, api_key, base_url)

\* self.create(), dispatched on the instance's class
Create(self) ==
    CASE self.cls = "OpenAIClient" -> OpenAIClient_create(self)
      [] self.cls = "AzureOpenAIClient" -> AzureOpenAIClient_create(self)
      [] self.cls = "OllamaClient" -> OllamaClient_create(self)
      [] self.cls = "HuggingFaceClient" -> HuggingFaceClient_create(self)
      [] self.cls = "CustomClient" -> CustomClient_create(self)

(* ------------------------------ the registry --------------------------- *)

\* ClientFactory._clients as the class body builds it: a dict, which keeps
\* its keys in insertion order, written as the sequence of its items
InitialClients ==
    <<[key |-> Str_openai, cls |-> "OpenAIClient"],
      [key |-> Str_azure, cls |-> "AzureOpenAIClient"],
      [key |-> Str_ollama, cls |-> "OllamaClient"],
      [key |-> Str_huggingface, cls |-> "HuggingFaceClient"]>>

\* list(d.keys())
DictKeys(d) == [i \in DOMAIN d |-> d[i].key]

\* d.get(k): the value stored under k, None when k is not a key
DictGet(d, k) ==
    IF \E i \in DOMAIN d : d[i].key = k
    THEN d[CHOOSE i \in DOMAIN d : d[i].key = k].cls
    ELSE None

DictSetMutKeepFirst(d, k, v) ==
    IF \E i \in DOMAIN d : d[i].key = k THEN d ELSE Append(d, [key |-> k, cls |-> v])

DictSetMutClear(d, k, v) ==
    Append(SelectSeq(d, LAMBDA it : it.key \in {Str_openai, Str_azure, Str_ollama, Str_huggingface}),
           [key |-> k, cls |-> v])

\* d[k] = v: an existing key keeps its position and gets the new value, a new
\* key is added at the end
DictSet(d, k, v) ==
    IF \E i \in DOMAIN d : d[i].key = k
    THEN [i \in DOMAIN d |-> IF d[i].key = k THEN [key |-> k, cls |-> v] ELSE d[i]]
    ELSE Append(d, [key |-> k, cls |-> v])

(* ------------------------------ ClientFactory -------------------------- *)

NoHandle == [lib |-> None]

UnknownClientMessage == "Unknown client name: {client_name}. Valid options are {', '.join(cls._clients.keys())}."

\* the ValueError of line 117: the f-string's two substitutions are kept
UnknownClient(d, client_name) ==
    [type |-> "ValueError", msg |-> UnknownClientMessage,
     client_name |-> client_name, options |-> Join(DictKeys(d))]

create_client_MutNoLower(d, e, client_name, api_key, base_url) ==
    LET client_class == DictGet(d, client_name) IN
    IF client_class = None
    THEN [ok |-> FALSE, client_class |-> None, self |-> NoObject, handle |-> NoHandle,
          error |-> UnknownClient(d, client_name)]
    ELSE LET r == Instantiate(client_class, e, api_key, base_url) IN
         IF r.ok
         THEN [ok |-> TRUE, client_class |-> client_class, self |-> r.self,
               handle |-> Create(r.self), error |-> NoError]
         ELSE [ok |-> FALSE, client_class |-> client_class, self |-> NoObject,
               handle |-> NoHandle, error |-> r.error]

create_client_MutBuiltinsOnly(d, e, client_name, api_key, base_url) ==
    LET client_class == DictGet(d, Lower(client_name)) IN
    IF client_class = None
    THEN [ok |-> FALSE, client_class |-> None, self |-> NoObject, handle |-> NoHandle,
          error |-> [type |-> "ValueError", msg |-> UnknownClientMessage,
                     client_name |-> client_name,
                     options |-> Join(DictKeys(InitialClients))]]
    ELSE LET r == Instantiate(client_class, e, api_key, base_url) IN
         IF r.ok
         THEN [ok |-> TRUE, client_class |-> client_class, self |-> r.self,
               handle |-> Create(r.self), error |-> NoError]
         ELSE [ok |-> FALSE, client_class |-> client_class, self |-> NoObject,
               handle |-> NoHandle, error |-> r.error]

\* ClientFactory.create_client: what the call returns or raises
create_client(d, e, client_name, api_key, base_url) ==
    LET client_class == DictGet(d, Lower(client_name)) IN
    IF client_class = None
    THEN [ok |-> FALSE, client_class |-> None, self |-> NoObject, handle |-> NoHandle,
          error |-> UnknownClient(d, client_name)]
    ELSE LET r == Instantiate(client_class, e, api_key, base_url) IN
         IF r.ok
         THEN [ok |-> TRUE, client_class |-> client_class, self |-> r.self,
               handle |-> Create(r.self), error |-> NoError]
         ELSE [ok |-> FALSE, client_class |-> client_class, self |-> NoObject,
               handle |-> NoHandle, error |-> r.error]

\* ClientFactory.register_client: the registry after the call
register_client(d, name, client_class) == DictSet(d, Lower(name), client_class)

(* ------------------------------- inputs -------------------------------- *)

\* the names callers pass: spellings of the built-in names and of two others
ClientNames ==
    {Str_openai, <<"O", "p", "e", "n", "A", "I">>, <<"O", "P", "E", "N", "A", "I">>,
     Str_azure, <<"A", "z", "u", "r", "e">>,
     Str_ollama, <<"O", "L", "L", "A", "M", "A">>,
     Str_huggingface, <<"H", "u", "g", "g", "i", "n", "g", "F", "a", "c", "e">>,
     <<"m", "y">>, <<"M", "y">>, <<"x">>, <<"X">>}

ApiKeyArgs == {None, "", "arg-key"}
BaseUrlArgs == {None, "", "arg-url"}
OrganizationArgs == {None, "", "arg-org"}
ProjectArgs == {None, "", "arg-project"}
ApiVersionArgs == {None, "", "arg-api-version"}
DeploymentArgs == {None, "", "arg-deployment"}

NoArgs ==
    [api_key |-> None, base_url |-> None, organization |-> None, project |-> None,
     api_version |-> None, azure_deployment |-> None]

(* ------------------------------- actions ------------------------------- *)

\* `last` records the most recent call: its arguments and what it returned or raised
NoCall ==
    [op |-> "none", client_name |-> <<>>, client_class |-> None, args |-> NoArgs,
     ok |-> TRUE, self |-> NoObject, handle |-> NoHandle, error |-> NoError]

Init ==
    /\ clients = InitialClients
    /\ env \in FactoryEnvs
    /\ nregs = 0
    /\ last = NoCall

\* the caller is done with the previous call's result and is free to call again
\* (the calls are synchronous: one returns or raises before the next is made)
Discard ==
    /\ last.op # "none"
    /\ last' = NoCall
    /\ UNCHANGED <<clients, env, nregs>>

RegisterClient(name, client_class) ==
    /\ last.op = "none"
    /\ nregs < MaxRegs
    /\ clients' = register_client(clients, name, client_class)
    /\ nregs' = nregs + 1
    /\ last' = [NoCall EXCEPT !.op = "register_client", !.client_name = name,
                              !.client_class = client_class]
    /\ UNCHANGED env

CreateClientMutDefaults(client_name, api_key, base_url) ==
    LET r == create_client(clients, env, client_name, api_key, base_url) IN
    /\ last.op = "none"
    /\ last' = [op |-> "create_client", client_name |-> client_name,
                client_class |-> r.client_class,
                args |-> [NoArgs EXCEPT !.api_key = api_key, !.base_url = base_url],
                ok |-> r.ok, self |-> r.self, handle |-> r.handle, error |-> r.error]
    /\ clients' = IF r.client_class = None
                  THEN DictSet(clients, Lower(client_name), "OpenAIClient")
                  ELSE clients
    /\ UNCHANGED <<env, nregs>>

CreateClient(client_name, api_key, base_url) ==
    LET r == create_client(clients, env, client_name, api_key, base_url) IN
    /\ last.op = "none"
    /\ last' = [op |-> "create_client", client_name |-> client_name,
                client_class |-> r.client_class,
                args |-> [NoArgs EXCEPT !.api_key = api_key, !.base_url = base_url],
                ok |-> r.ok, self |-> r.self, handle |-> r.handle, error |-> r.error]
    /\ UNCHANGED <<clients, env, nregs>>

Next ==
    \/ \E name \in ClientNames, client_class \in Classes : RegisterClient(name, client_class)
    \/ \E name \in ClientNames, api_key \in ApiKeyArgs, base_url \in BaseUrlArgs :
          CreateClient(name, api_key, base_url)
    \/ Discard

Spec == Init /\ [][Next]_vars

(* ------------- the constructors called directly by a caller ------------ *)

InitCtor ==
    /\ clients = InitialClients
    /\ env \in CtorEnvs
    /\ nregs = 0
    /\ last = NoCall

\* the record of a direct constructor call
CtorCall(op, args, r) ==
    [op |-> op, client_name |-> <<>>, client_class |-> op, args |-> args,
     ok |-> r.ok, self |-> r.self, handle |-> NoHandle, error |-> r.error]

NewOpenAIClient(api_key, base_url, organization, project) ==
    /\ last.op = "none"
    /\ last' = CtorCall("OpenAIClient",
                        [NoArgs EXCEPT !.api_key = api_key, !.base_url = base_url,
                                       !.organization = organization, !.project = project],
                        OpenAIClient_init(env, api_key, base_url, organization, project))
    /\ UNCHANGED <<clients, env, nregs>>

NewAzureOpenAIClient(api_key, base_url, api_version, azure_deployment) ==
    /\ last.op = "none"
    /\ last' = CtorCall("AzureOpenAIClient",
                        [NoArgs EXCEPT !.api_key = api_key, !.base_url = base_url,
                                       !.api_version = api_version,
                                       !.azure_deployment = azure_deployment],
                        AzureOpenAIClient_init(env, api_key, base_url, api_version, azure_deployment))
    /\ UNCHANGED <<clients, env, nregs>>

NewOllamaClient(api_key, base_url) ==
    /\ last.op = "none"
    /\ last' = CtorCall("OllamaClient",
                        [NoArgs EXCEPT !.api_key = api_key, !.base_url = base_url],
                        OllamaClient_init(env, api_key, base_url))
    /\ UNCHANGED <<clients, env, nregs>>

NewHuggingFaceClient(api_key, base_url) ==
    /\ last.op = "none"
    /\ last' = CtorCall("HuggingFaceClient",
                        [NoArgs EXCEPT !.api_key = api_key, !.base_url = base_url],
                        HuggingFaceClient_init(env, api_key, base_url))
    /\ UNCHANGED <<clients, env, nregs>>

NextCtor ==
    \/ \E api_key \in ApiKeyArgs, base_url \in BaseUrlArgs,
          organization \in OrganizationArgs, project \in ProjectArgs :
          NewOpenAIClient(api_key, base_url, organization, project)
    \/ \E api_key \in ApiKeyArgs, base_url \in BaseUrlArgs,
          api_version \in ApiVersionArgs, azure_deployment \in DeploymentArgs :
          NewAzureOpenAIClient(api_key, base_url, api_version, azure_deployment)
    \/ \E api_key \in ApiKeyArgs, base_url \in BaseUrlArgs : NewOllamaClient(api_key, base_url)
    \/ \E api_key \in ApiKeyArgs, base_url \in BaseUrlArgs : NewHuggingFaceClient(api_key, base_url)
    \/ Discard

SpecCtor == InitCtor /\ [][NextCtor]_vars

(* ----------------------- vocabulary of the properties ------------------ *)

\* a credential, endpoint or parameter is supplied (present) when it is a
\* non-empty string: neither None nor ""
Supplied(v) == v # None /\ v # ""

\* two names differ at most in the case of their letters
CaseEq(a, b) ==
    /\ Len(a) = Len(b)
    /\ \A i \in DOMAIN a :
          \/ a[i] = b[i]
          \/ a[i] \in DOMAIN UpperToLower /\ UpperToLower[a[i]] = b[i]
          \/ b[i] \in DOMAIN UpperToLower /\ UpperToLower[b[i]] = a[i]

IsLowercase(s) == \A i \in DOMAIN s : s[i] \notin DOMAIN UpperToLower

KeySet(d) == {d[i].key : i \in DOMAIN d}

BuiltinKeys == {Str_openai, Str_azure, Str_ollama, Str_huggingface}

RECURSIVE Split(_)
\* the names a reader finds in "a, b, c": the pieces between the ", " separators
Split(s) ==
    LET cuts == {i \in 1..(Len(s) - 1) : s[i] = "," /\ s[i + 1] = " "} IN
    IF cuts = {} THEN <<s>>
    ELSE LET i == CHOOSE c \in cuts : \A c2 \in cuts : c <= c2 IN
         <<SubSeq(s, 1, i - 1)>> \o Split(SubSeq(s, i + 2, Len(s)))

\* the resolver type create_client selects for a name (None: unknown name)
Used(d, n) == create_client(d, env, n, None, None).client_class

\* the built-in type of a name, None for a name that is not built in
BuiltinFor(n) ==
    CASE CaseEq(n, Str_openai) -> "OpenAIClient"
      [] CaseEq(n, Str_azure) -> "AzureOpenAIClient"
      [] CaseEq(n, Str_ollama) -> "OllamaClient"
      [] CaseEq(n, Str_huggingface) -> "HuggingFaceClient"
      [] OTHER -> None

\* the first supplied value among the explicit argument and the environment
\* variable, else the variant's default
FirstPresent(arg, envv, dflt) ==
    CASE Supplied(arg) -> arg
      [] Supplied(envv) -> envv
      [] OTHER -> dflt

\* a resolved field is the first present value; when none is present it is empty
ResolvedAs(res, arg, envv, dflt) ==
    LET v == FirstPresent(arg, envv, dflt) IN
    IF Supplied(v) THEN res = v ELSE ~Supplied(res)

EnvValues == {EnvValue[v] : v \in EnvVars}

(* ------------------------------ properties ----------------------------- *)

\* C1: create_client with a name whose lowercased form is not a registered key
\* raises the configuration error, builds no handle, and the names listed in
\* the message are exactly the keys registered at that moment, each once.
C1_UnknownNameListsRegisteredKeys ==
    (last.op = "create_client" /\ ~(\E k \in KeySet(clients) : CaseEq(k, last.client_name)))
    => /\ ~last.ok
       /\ last.error.type = "ValueError"
       /\ last.error.msg = UnknownClientMessage
       /\ last.error.client_name = last.client_name
       /\ last.handle = NoHandle
       /\ last.self = NoObject
       /\ LET listed == Split(last.error.options) IN
          /\ {listed[i] : i \in DOMAIN listed} = KeySet(clients)
          /\ Len(listed) = Cardinality(KeySet(clients))

\* an unknown name is requested after another name was added to the registry
C1_Witness ==
    /\ last.op = "create_client"
    /\ ~(\E k \in KeySet(clients) : CaseEq(k, last.client_name))
    /\ Len(clients) > Len(InitialClients)
    /\ ~last.ok

\* C2: before any registration a name selects its built-in type; a
\* register_client(name, t) makes every spelling of name select t, whatever was
\* mapped before, and leaves the selection of every other name as it was; a
\* create_client uses the type the registry maps at that moment and changes no
\* selection. Hence the type used is that of the most recent registration.
C2_LastRegistrationWins ==
    /\ [](nregs = 0 => \A n \in ClientNames : Used(clients, n) = BuiltinFor(n))
    /\ [][/\ last'.op = "register_client" =>
               \A n \in ClientNames :
                  Used(clients', n) = IF CaseEq(n, last'.client_name)
                                      THEN last'.client_class
                                      ELSE Used(clients, n)
          /\ last'.op = "create_client" =>
               /\ last'.client_class = Used(clients, last'.client_name)
               /\ \A n \in ClientNames : Used(clients', n) = Used(clients, n)]_vars

\* create_client under a built-in name uses a type registered over the built-in one
C2_Witness ==
    /\ last.op = "create_client"
    /\ CaseEq(last.client_name, Str_openai)
    /\ last.client_class = "CustomClient"
    /\ last.ok
    /\ nregs = MaxRegs

\* C3: a create_client call has the same outcome under every spelling of its
\* name that differs only in letter case (same type, same handle, same error
\* and same listed options; the message echoes the name as it was spelled), and
\* register_client under another spelling writes the entry already written.
C3_CaseInsensitive ==
    /\ last.op = "create_client" =>
          \A n \in ClientNames :
             CaseEq(n, last.client_name) =>
                LET r == create_client(clients, env, n, last.args.api_key, last.args.base_url) IN
                /\ r.client_class = last.client_class
                /\ r.ok = last.ok
                /\ r.self = last.self
                /\ r.handle = last.handle
                /\ r.error.type = last.error.type
                /\ r.error.msg = last.error.msg
                /\ r.error.options = last.error.options
    /\ last.op = "register_client" =>
          \A n \in ClientNames :
             CaseEq(n, last.client_name) =>
                register_client(clients, n, last.client_class) = clients

\* a name spelled with capitals resolves to a built-in type and builds a handle
C3_Witness ==
    /\ last.op = "create_client"
    /\ ~IsLowercase(last.client_name)
    /\ last.client_class = "OpenAIClient"
    /\ last.ok
    /\ last.handle.api_key = "env-openai-key"

\* C4: OpenAIClient(...) raises the configuration error exactly when neither
\* the explicit api_key nor OPENAI_API_KEY is supplied, whatever the endpoint,
\* organization and project are.
C4_OpenAIFailsIffNoCredential ==
    last.op = "OpenAIClient" =>
       /\ ~last.ok <=> (~Supplied(last.args.api_key) /\ ~Supplied(env["OPENAI_API_KEY"]))
       /\ ~last.ok => last.error.type = "ValueError" /\ last.self = NoObject
       /\ last.ok => last.self.cls = "OpenAIClient"

\* the credential comes from the environment alone and construction succeeds
\* with an empty endpoint argument
C4_Witness ==
    /\ last.op = "OpenAIClient"
    /\ last.ok
    /\ last.args.api_key = None
    /\ last.args.base_url = ""
    /\ Supplied(env["OPENAI_API_KEY"])

\* C5: HuggingFaceClient(...) succeeds exactly when a credential is supplied by
\* the argument or HF_API_TOKEN and an endpoint is supplied by the argument or
\* HF_ENDPOINT_URL; otherwise it raises the configuration error.
C5_HuggingFaceNeedsBoth ==
    last.op = "HuggingFaceClient" =>
       /\ last.ok <=> /\ Supplied(last.args.api_key) \/ Supplied(env["HF_API_TOKEN"])
                      /\ Supplied(last.args.base_url) \/ Supplied(env["HF_ENDPOINT_URL"])
       /\ ~last.ok => last.error.type = "ValueError" /\ last.self = NoObject

\* the credential is there and the endpoint is missing from both sources
C5_Witness ==
    /\ last.op = "HuggingFaceClient"
    /\ ~last.ok
    /\ Supplied(env["HF_API_TOKEN"])
    /\ ~Supplied(last.args.base_url)
    /\ ~Supplied(env["HF_ENDPOINT_URL"])

\* C6: OllamaClient(...) never raises; its credential is never empty, and it is
\* the placeholder "ollama" whenever no credential is supplied.
C6_OllamaNeverFails ==
    last.op = "OllamaClient" =>
       /\ last.ok
       /\ Supplied(last.self.api_key)
       /\ ~Supplied(last.args.api_key) => last.self.api_key = "ollama"

\* no credential argument, another variant's key in the environment: placeholder used
C6_Witness ==
    /\ last.op = "OllamaClient"
    /\ last.args.api_key = None
    /\ Supplied(env["OPENAI_API_KEY"])
    /\ last.self.api_key = "ollama"

\* C7: a create_client that selects a built-in type returns a handle only when
\* construction passed validation: the handle of an OpenAIClient has a
\* non-empty credential, that of a HuggingFaceClient a non-empty credential and
\* endpoint, and a call that raises has built no handle and no resolver.
C7_NoHandleWithoutValidation ==
    (last.op = "create_client" /\ last.client_class \in BuiltinClasses) =>
       /\ last.handle # NoHandle => last.ok
       /\ ~last.ok => last.handle = NoHandle /\ last.self = NoObject /\ last.error.type = "ValueError"
       /\ last.ok => last.handle # NoHandle /\ last.self.cls = last.client_class
       /\ (last.ok /\ last.client_class = "OpenAIClient") => Supplied(last.handle.api_key)
       /\ (last.ok /\ last.client_class = "HuggingFaceClient") =>
             Supplied(last.handle.api_key) /\ Supplied(last.handle.base_url)

\* the hosted-hub variant is requested with a credential and no endpoint
C7_Witness ==
    /\ last.op = "create_client"
    /\ last.client_class = "HuggingFaceClient"
    /\ Supplied(last.args.api_key)
    /\ ~last.ok
    /\ last.handle = NoHandle

\* C8: every field a built-in constructor resolves is the first supplied value
\* in the order explicit argument, the variant's environment variable, the
\* variant's default; the OpenAIClient endpoint is the argument or the fixed
\* default URL and never an environment value.
C8_FirstPresentValue ==
    /\ (last.op = "OpenAIClient" /\ last.ok) =>
          /\ ResolvedAs(last.self.api_key, last.args.api_key, env["OPENAI_API_KEY"], None)
          /\ ResolvedAs(last.self.base_url, last.args.base_url, None, "https://api.openai.com/v1")
          /\ last.self.base_url \notin EnvValues
          /\ ResolvedAs(last.self.organization, last.args.organization, env["OPENAI_ORG_ID"], None)
          /\ ResolvedAs(last.self.project, last.args.project, env["OPENAI_PROJECT_ID"], None)
    /\ (last.op = "AzureOpenAIClient" /\ last.ok) =>
          /\ ResolvedAs(last.self.api_key, last.args.api_key, env["AZURE_OPENAI_API_KEY"], None)
          /\ ResolvedAs(last.self.base_url, last.args.base_url, env["AZURE_OPENAI_ENDPOINT"], None)
          /\ ResolvedAs(last.self.api_version, last.args.api_version, env["OPENAI_API_VERSION"], None)
          /\ ResolvedAs(last.self.azure_deployment, last.args.azure_deployment,
                        env["AZURE_OPENAI_DEPLOYMENT_NAME"], None)
    /\ (last.op = "OllamaClient" /\ last.ok) =>
          /\ ResolvedAs(last.self.api_key, last.args.api_key, None, "ollama")
          /\ ResolvedAs(last.self.base_url, last.args.base_url, env["OLLAMA_ENDPOINT_URL"], None)
    /\ (last.op = "HuggingFaceClient" /\ last.ok) =>
          /\ ResolvedAs(last.self.api_key, last.args.api_key, env["HF_API_TOKEN"], None)
          /\ ResolvedAs(last.self.base_url, last.args.base_url, env["HF_ENDPOINT_URL"], None)

\* both the argument and the environment supply the credential, the endpoint
\* comes from the environment: the argument wins for the one, the variable
\* is read for the other
C8_Witness ==
    /\ last.op = "AzureOpenAIClient"
    /\ Supplied(last.args.api_key)
    /\ Supplied(env["AZURE_OPENAI_API_KEY"])
    /\ last.self.api_key = last.args.api_key
    /\ ~Supplied(last.args.base_url)
    /\ last.self.base_url = "env-azure-endpoint"

\* C9: a create_client step leaves the registry as it was, whatever its
\* outcome, and a step that changes the registry is a register_client.
C9_CreateLeavesRegistry ==
    [][/\ last'.op = "create_client" => clients' = clients
       /\ clients' # clients => last'.op = "register_client"]_vars

\* create_client failed validation on a registry that had been written to
C9_Witness ==
    /\ last.op = "create_client"
    /\ ~last.ok
    /\ last.client_class # None
    /\ clients # InitialClients

\* C10: the registry always holds the four built-in keys and only lowercase
\* keys; no step removes a key; register_client maps the lowercased name to the
\* given type and leaves the mapping of every other key as it was.
C10_RegistryKeys ==
    /\ [](/\ BuiltinKeys \subseteq KeySet(clients)
          /\ \A k \in KeySet(clients) : IsLowercase(k)
          /\ Cardinality(KeySet(clients)) = Len(clients))
    /\ [][/\ KeySet(clients) \subseteq KeySet(clients')
          /\ last'.op = "register_client" =>
                \A k \in KeySet(clients) \cup KeySet(clients') :
                   IF IsLowercase(k) /\ CaseEq(k, last'.client_name)
                   THEN DictGet(clients', k) = last'.client_class
                   ELSE DictGet(clients', k) = DictGet(clients, k)
          /\ last'.op = "register_client" =>
                \E k \in KeySet(clients') : IsLowercase(k) /\ CaseEq(k, last'.client_name)]_vars

\* a name spelled with capitals was registered as a new key next to another new key
C10_Witness ==
    /\ last.op = "register_client"
    /\ ~IsLowercase(last.client_name)
    /\ Len(clients) = Len(InitialClients) + 2

====
